---- MODULE Spec2Model ----
(***************************************************************************)
(* A model of the Rust state machine: the System, Balances and             *)
(* Proof-of-Existence pallets, their dispatchers and Runtime::execute_block.*)
(*                                                                         *)
(* Fixed-width integers (u32 block numbers and nonces, u128 balances) are  *)
(* kept at their real width.  A value is a little-endian tuple of 16-bit   *)
(* limbs: 2 limbs for a u32, 8 limbs for a u128.  All arithmetic is done   *)
(* limb by limb, so that the carry out of the top limb is the overflow the *)
(* Rust code detects (checked_add, checked_sub) or suffers (+, +=).        *)
(***************************************************************************)
EXTENDS Integers, Sequences, FiniteSets, TLC

VARIABLES
    block_number,   \* system::Pallet.block_number                    (u32)
    nonce,          \* system::Pallet.nonce        BTreeMap<AccountId, u32>
    balances,       \* balances::Pallet.balances   BTreeMap<AccountId, u128>
    claims,         \* proof_of_existence::Pallet.claims BTreeMap<Content, AccountId>
    pc,             \* where main is: "genesis", "idle", or "loop" (inside execute_block's for)
    header,         \* block.header.block_number of the block last passed to execute_block
    len,            \* block.extrinsics.len() of that block
    i,              \* the enumerate() index of the for loop: extrinsics already taken
    ext,            \* the loop's pattern Extrinsic {caller, call} of the last iteration
    res,            \* the value dispatch returned in the last iteration (_res before map_err)
    stderr,         \* what the eprintln! of this execute_block call has written
    result,         \* what the last finished execute_block call returned
    panicked,       \* the process died of an arithmetic-overflow panic
    calls,          \* history: the execute_block calls made since the initial state
    included        \* history: per account, the extrinsics it sent in the blocks
                    \* accepted since the initial state

vars == <<block_number, nonce, balances, claims, pc, header, len, i, ext, res,
          stderr, result, panicked, calls, included>>

----------------------------------------------------------------------------
(* Bounds of the exploration.                                              *)

\* The most execute_block calls of a run.
MaxBlocks == 2

\* The most extrinsics of one block.
MaxExtrinsics == 2

\* The most extrinsics of all the blocks of a run together.
MaxCalls == 2

----------------------------------------------------------------------------
(* types: fixed-width unsigned integers as little-endian 16-bit limbs.     *)

\* types::Balance = u128
BalanceBits == 128

\* types::BlockNumber = u32
BlockNumberBits == 32

\* types::Nonce = u32
NonceBits == 32

\* A limb holds 16 bits.
LimbBase == 2 ^ 16

BalanceLimbs == BalanceBits \div 16

BlockNumberLimbs == BlockNumberBits \div 16

NonceLimbs == NonceBits \div 16

\* T::zero()
Zero(w) == [k \in 1..w |-> 0]

\* T::one()
One(w) == [k \in 1..w |-> IF k = 1 THEN 1 ELSE 0]

\* T::MAX, the value 2^(16w) - 1
MaxValue(w) == [k \in 1..w |-> LimbBase - 1]

\* The w-limb value of a literal 0 <= n < 2^31.
Lit(n, w) == [k \in 1..w |-> IF k = 1 THEN n % LimbBase
                             ELSE IF k = 2 THEN n \div LimbBase ELSE 0]

\* The limbs of a + b from limb k on, c being the carry into limb k, followed
\* by the carry out of the top limb.
RECURSIVE AddFrom(_, _, _, _)
AddFrom(a, b, k, c) ==
    IF k > Len(a) THEN <<c>>
    ELSE <<(a[k] + b[k] + c) % LimbBase>>
             \o AddFrom(a, b, k + 1, (a[k] + b[k] + c) \div LimbBase)

\* The limbs of a - b from limb k on, c being the borrow taken from limb k,
\* followed by the borrow out of the top limb.
RECURSIVE SubFrom(_, _, _, _)
SubFrom(a, b, k, c) ==
    IF k > Len(a) THEN <<c>>
    ELSE <<(a[k] - b[k] - c + LimbBase) % LimbBase>>
             \o SubFrom(a, b, k + 1, IF a[k] - b[k] - c < 0 THEN 1 ELSE 0)

\* a + b modulo 2^(16w): what the machine leaves in the register.
wrapping_add(a, b) == SubSeq(AddFrom(a, b, 1, 0), 1, Len(a))

\* a - b modulo 2^(16w).
wrapping_sub(a, b) == SubSeq(SubFrom(a, b, 1, 0), 1, Len(a))

\* Option<T>
None == <<>>

Some(v) == <<v>>

\* CheckedAdd::checked_add: None on overflow.
checked_add(a, b) ==
    LET r == AddFrom(a, b, 1, 0)
    IN  IF r[Len(a) + 1] = 1 THEN None ELSE Some(SubSeq(r, 1, Len(a)))

\* CheckedSub::checked_sub: None on underflow.
checked_sub(a, b) ==
    LET r == SubFrom(a, b, 1, 0)
    IN  IF r[Len(a) + 1] = 1 THEN None ELSE Some(SubSeq(r, 1, Len(a)))

----------------------------------------------------------------------------
(* BTreeMap: a function whose domain is the set of stored keys.            *)

EmptyMap == [k \in {} |-> 0]

\* BTreeMap::get
Get(m, k) == IF k \in DOMAIN m THEN Some(m[k]) ELSE None

\* BTreeMap::insert
Insert(m, k, v) == [x \in (DOMAIN m) \cup {k} |-> IF x = k THEN v ELSE m[x]]

\* BTreeMap::remove
Remove(m, k) == [x \in (DOMAIN m) \ {k} |-> m[x]]

\* Option::unwrap_or
unwrap_or(o, d) == IF o = None THEN d ELSE o[1]

----------------------------------------------------------------------------
(* support: DispatchResult = Result<(), &'static str>.                     *)

Ok == <<"Ok">>

Err(e) == <<"Err", e>>

----------------------------------------------------------------------------
(* The + and += of a primitive integer type: the set of outcomes a build   *)
(* can produce.  Without overflow there is one, the sum.  On overflow a    *)
(* build with overflow checks panics and a build without them wraps.       *)

add(a, b) ==
    LET r == AddFrom(a, b, 1, 0)
    IN  IF r[Len(a) + 1] = 1
        THEN {[panic |-> TRUE, val |-> a], [panic |-> FALSE, val |-> SubSeq(r, 1, Len(a))]}
        ELSE {[panic |-> FALSE, val |-> SubSeq(r, 1, Len(a))]}

----------------------------------------------------------------------------
(* system::Pallet                                                          *)

\* inc_block_number as it would be if it added two.
inc_block_number_by_two(bn) == add(bn, Lit(2, BlockNumberLimbs))

\* Pallet::inc_block_number: self.block_number += T::BlockNumber::one()
inc_block_number(bn) == add(bn, One(BlockNumberLimbs))

\* inc_nonce as it would be if the stored nonce were not read back: the
\* account's nonce is set to one on every call.
inc_nonce_from_zero(nc, who) ==
    {[panic |-> FALSE, val |-> Insert(nc, who, One(NonceLimbs))]}

\* Pallet::inc_nonce: the outcomes, val being the new nonce map.
inc_nonce(nc, who) ==
    LET n == unwrap_or(Get(nc, who), Zero(NonceLimbs))
    IN  {[panic |-> o.panic, val |-> IF o.panic THEN nc ELSE Insert(nc, who, o.val)] :
            o \in add(n, One(NonceLimbs))}

----------------------------------------------------------------------------
(* balances::Pallet                                                        *)

\* set_balance as it would be if it added the amount to the balance stored.
set_balance_adding(b, who, amount) ==
    Insert(b, who, wrapping_add(unwrap_or(Get(b, who), Zero(BalanceLimbs)), amount))

\* Pallet::set_balance
set_balance(b, who, amount) == Insert(b, who, amount)

\* balance as it would be with a default of one for an account with no entry.
balance_or_one(b, who) == unwrap_or(Get(b, who), One(BalanceLimbs))

\* Pallet::balance: the stored value, or zero for an account with no entry.
balance(b, who) == unwrap_or(Get(b, who), Zero(BalanceLimbs))

\* transfer as it would be with the unchecked - in place of checked_sub.
transfer_unchecked_sub(b, caller, to, amount) ==
    LET new_caller_balance == wrapping_sub(balance(b, caller), amount)
        new_to_balance == checked_add(balance(b, to), amount)
    IN  IF new_to_balance = None
        THEN [res |-> Err("Overflow."), balances |-> b]
        ELSE [res |-> Ok,
              balances |-> Insert(Insert(b, caller, new_caller_balance),
                                  to, new_to_balance[1])]

\* transfer as it would be if the caller's new balance were never written.
transfer_no_debit(b, caller, to, amount) ==
    LET new_caller_balance == checked_sub(balance(b, caller), amount)
        new_to_balance == checked_add(balance(b, to), amount)
    IN  IF new_caller_balance = None
        THEN [res |-> Err("Insufficient funds."), balances |-> b]
        ELSE IF new_to_balance = None
        THEN [res |-> Err("Overflow."), balances |-> b]
        ELSE [res |-> Ok, balances |-> Insert(b, to, new_to_balance[1])]

\* transfer as it would be if the caller were debited before the addition is
\* checked: an overflow then leaves the debit behind.
transfer_debit_first(b, caller, to, amount) ==
    LET new_caller_balance == checked_sub(balance(b, caller), amount)
        new_to_balance == checked_add(balance(b, to), amount)
    IN  IF new_caller_balance = None
        THEN [res |-> Err("Insufficient funds."), balances |-> b]
        ELSE IF new_to_balance = None
        THEN [res |-> Err("Overflow."),
              balances |-> Insert(b, caller, new_caller_balance[1])]
        ELSE [res |-> Ok,
              balances |-> Insert(Insert(b, caller, new_caller_balance[1]),
                                  to, new_to_balance[1])]

\* transfer as it would be if reading a balance stored the zero it reads for an
\* account with no entry.
transfer_vivifying(b, caller, to, amount) ==
    LET read == Insert(Insert(b, caller, balance(b, caller)), to, balance(b, to))
        new_caller_balance == checked_sub(balance(b, caller), amount)
        new_to_balance == checked_add(balance(b, to), amount)
    IN  IF new_caller_balance = None
        THEN [res |-> Err("Insufficient funds."), balances |-> read]
        ELSE IF new_to_balance = None
        THEN [res |-> Err("Overflow."), balances |-> read]
        ELSE [res |-> Ok,
              balances |-> Insert(Insert(b, caller, new_caller_balance[1]),
                                  to, new_to_balance[1])]

\* transfer as it would be if the addition were checked before the subtraction.
transfer_overflow_first(b, caller, to, amount) ==
    LET new_caller_balance == checked_sub(balance(b, caller), amount)
        new_to_balance == checked_add(balance(b, to), amount)
    IN  IF new_to_balance = None
        THEN [res |-> Err("Overflow."), balances |-> b]
        ELSE IF new_caller_balance = None
        THEN [res |-> Err("Insufficient funds."), balances |-> b]
        ELSE [res |-> Ok,
              balances |-> Insert(Insert(b, caller, new_caller_balance[1]),
                                  to, new_to_balance[1])]

\* Pallet::transfer: the result and the balances map it leaves.
transfer(b, caller, to, amount) ==
    LET caller_balance == balance(b, caller)
        to_balance == balance(b, to)
        new_caller_balance == checked_sub(caller_balance, amount)
        new_to_balance == checked_add(to_balance, amount)
    IN  IF new_caller_balance = None
        THEN [res |-> Err("Insufficient funds."), balances |-> b]
        ELSE IF new_to_balance = None
        THEN [res |-> Err("Overflow."), balances |-> b]
        ELSE [res |-> Ok,
              balances |-> Insert(Insert(b, caller, new_caller_balance[1]),
                                  to, new_to_balance[1])]

\* balances::Pallet as Dispatch: Call::transfer {to, amount}
balances_dispatch(b, caller, call) ==
    transfer(b, caller, call.to, call.amount)

----------------------------------------------------------------------------
(* proof_of_existence::Pallet                                              *)

\* Pallet::get_claim
get_claim(c, claim) == Get(c, claim)

\* create_claim as it would be without the contains_key check.
create_claim_overwriting(c, caller, claim) ==
    [res |-> Ok, claims |-> Insert(c, claim, caller)]

\* create_claim as it would be if content claimed by another account were
\* taken over by the caller.
create_claim_taking_over(c, caller, claim) ==
    IF claim \in DOMAIN c /\ c[claim] = caller
    THEN [res |-> Err("This content is already been claimed."), claims |-> c]
    ELSE [res |-> Ok, claims |-> Insert(c, claim, caller)]

\* create_claim as it would be if the owner could claim its content again.
create_claim_again_by_owner(c, caller, claim) ==
    IF claim \in DOMAIN c /\ c[claim] /= caller
    THEN [res |-> Err("This content is already been claimed."), claims |-> c]
    ELSE [res |-> Ok, claims |-> Insert(c, claim, caller)]

\* Pallet::create_claim: the result and the claims map it leaves.
create_claim(c, caller, claim) ==
    IF claim \in DOMAIN c
    THEN [res |-> Err("This content is already been claimed."), claims |-> c]
    ELSE [res |-> Ok, claims |-> Insert(c, claim, caller)]

\* revoke_claim as it would be without the owner check.
revoke_claim_by_anyone(c, caller, claim) ==
    IF Get(c, claim) = None
    THEN [res |-> Err("Claim does not exist."), claims |-> c]
    ELSE [res |-> Ok, claims |-> Remove(c, claim)]

\* revoke_claim as it would be if the claim were removed before the owner is
\* compared with the caller.
revoke_claim_removing_first(c, caller, claim) ==
    LET owner == get_claim(c, claim)
    IN  IF owner = None
        THEN [res |-> Err("Claim does not exist."), claims |-> c]
        ELSE IF owner[1] /= caller
        THEN [res |-> Err("This content is owned by some other user."),
              claims |-> Remove(c, claim)]
        ELSE [res |-> Ok, claims |-> Remove(c, claim)]

\* Pallet::revoke_claim
revoke_claim(c, caller, claim) ==
    LET owner == get_claim(c, claim)
    IN  IF owner = None
        THEN [res |-> Err("Claim does not exist."), claims |-> c]
        ELSE IF owner[1] /= caller
        THEN [res |-> Err("This content is owned by some other user."), claims |-> c]
        ELSE [res |-> Ok, claims |-> Remove(c, claim)]

\* The dispatch of the pallet as it would be with the two arms of its match
\* exchanged.
poe_dispatch_swapped(c, caller, call) ==
    IF call.name = "create_claim"
    THEN revoke_claim(c, caller, call.claim)
    ELSE create_claim(c, caller, call.claim)

\* proof_of_existence::Pallet as Dispatch: Call::create_claim / Call::revoke_claim
poe_dispatch(c, caller, call) ==
    IF call.name = "create_claim"
    THEN create_claim(c, caller, call.claim)
    ELSE revoke_claim(c, caller, call.claim)

----------------------------------------------------------------------------
(* Runtime                                                                 *)

\* dispatch as it would be if the Balances arm also reset the claims.
dispatch_clearing_claims(b, c, caller, runtime_call) ==
    IF runtime_call.pallet = "balances"
    THEN LET r == balances_dispatch(b, caller, runtime_call.call)
         IN  [res |-> r.res, balances |-> r.balances, claims |-> EmptyMap]
    ELSE LET r == poe_dispatch(c, caller, runtime_call.call)
         IN  [res |-> r.res, balances |-> b, claims |-> r.claims]

\* dispatch as it would be if the result of the pallet were dropped instead of
\* propagated by the ? operator.
dispatch_dropping_result(b, c, caller, runtime_call) ==
    IF runtime_call.pallet = "balances"
    THEN LET r == balances_dispatch(b, caller, runtime_call.call)
         IN  [res |-> Ok, balances |-> r.balances, claims |-> c]
    ELSE LET r == poe_dispatch(c, caller, runtime_call.call)
         IN  [res |-> Ok, balances |-> b, claims |-> r.claims]

\* Runtime as Dispatch: routes a RuntimeCall to the pallet that owns it.
dispatch(b, c, caller, runtime_call) ==
    IF runtime_call.pallet = "balances"
    THEN LET r == balances_dispatch(b, caller, runtime_call.call)
         IN  [res |-> r.res, balances |-> r.balances, claims |-> c]
    ELSE LET r == poe_dispatch(c, caller, runtime_call.call)
         IN  [res |-> r.res, balances |-> b, claims |-> r.claims]

\* The check as it would be if made against the number before the increment.
block_number_invalid_before_inc(bn, h) == wrapping_sub(bn, One(BlockNumberLimbs)) /= h

\* The check of execute_block: the incremented block number against the header.
block_number_invalid(bn, h) == bn /= h

\* What the eprintln! of execute_block prints for a failed extrinsic.
report(h, idx, e) == [block_number |-> h, extrinsic_number |-> idx, error |-> e]

\* map_err as it would be if the extrinsic number printed were counted from one.
map_err_one_based(out, h, idx, r) ==
    IF r[1] = "Err" THEN Append(out, report(h, idx + 1, r[2])) ELSE out

\* map_err(|e| eprintln!(..)): the stderr after a dispatch that returned r.
map_err(out, h, idx, r) ==
    IF r[1] = "Err" THEN Append(out, report(h, idx, r[2])) ELSE out

----------------------------------------------------------------------------
(* The inputs main can pass.                                               *)

AccountId == {"alice", "bob", "charlie"}

\* The accounts main seeds and submits extrinsics for; charlie only receives.
Callers == {"alice", "bob"}

Content == {"Hello"}

\* The amounts of the transfers a block may carry.
Amounts == {Lit(n, BalanceLimbs) : n \in {0, 20, 500}}

\* The amounts main may seed an account with.
SeedAmounts == {Lit(100, BalanceLimbs), MaxValue(BalanceLimbs)}

\* balances::Call<Runtime>
BalancesCall == [name : {"transfer"}, to : AccountId, amount : Amounts]

\* proof_of_existence::Call<Runtime>
ProofOfExistenceCall == [name : {"create_claim", "revoke_claim"}, claim : Content]

\* RuntimeCall
RuntimeCall ==
    [pallet : {"balances"}, call : BalancesCall]
        \cup [pallet : {"proof_of_existence"}, call : ProofOfExistenceCall]

\* types::Extrinsic
Extrinsic == [caller : Callers, call : RuntimeCall]

\* The block numbers a header may declare.
Headers == {Lit(n, BlockNumberLimbs) : n \in 1..MaxBlocks}

\* No extrinsic taken yet, no dispatch made yet, no call returned yet.
NoExt == <<>>

NoRes == <<>>

\* A u32 below 2^31 as a number.
U32(x) == x[1] + LimbBase * x[2]

\* The extrinsics the accepted blocks have carried so far: the sum of the nonces.
RECURSIVE NonceSum(_, _)
NonceSum(nc, S) ==
    IF S = {} THEN 0
    ELSE LET a == CHOOSE x \in S : TRUE
         IN  U32(nc[a]) + NonceSum(nc, S \ {a})

----------------------------------------------------------------------------
(* Runtime::new(), before main has seeded anything.                        *)

Init ==
    /\ block_number = Zero(BlockNumberLimbs)
    /\ nonce = EmptyMap
    /\ balances = EmptyMap
    /\ claims = EmptyMap
    /\ pc = "genesis"
    /\ header = Zero(BlockNumberLimbs)
    /\ len = 0
    /\ i = 0
    /\ ext = NoExt
    /\ res = NoRes
    /\ stderr = <<>>
    /\ result = NoRes
    /\ panicked = FALSE
    /\ calls = 0
    /\ included = [a \in AccountId |-> 0]

\* main: runtime.balances.set_balance(&who, amount), any number of times before
\* the first block.
SetBalanceOf(who, amount) ==
    /\ pc = "genesis"
    /\ ~panicked
    /\ balances' = set_balance(balances, who, amount)
    /\ UNCHANGED <<block_number, nonce, claims, pc, header, len, i, ext, res,
                   stderr, result, panicked, calls, included>>

SetBalance == \E who \in Callers, amount \in SeedAmounts : SetBalanceOf(who, amount)

\* execute_block as it would be if the mismatch were only recorded and the
\* return left out: the for loop then runs over the rejected block as well.
ExecuteBlockOf_no_return(h, n) ==
    /\ pc \in {"genesis", "idle"}
    /\ ~panicked
    /\ \E o \in inc_block_number(block_number) :
          /\ ~o.panic
          /\ block_number' = o.val
          /\ header' = h
          /\ len' = n
          /\ i' = 0
          /\ ext' = NoExt
          /\ res' = NoRes
          /\ stderr' = <<>>
          /\ pc' = "loop"
          /\ result' = IF block_number_invalid(o.val, h)
                       THEN Err("The current block number is invalid.")
                       ELSE NoRes
    /\ calls' = calls + 1
    /\ UNCHANGED <<nonce, balances, claims, panicked, included>>

\* execute_block as it would be if a mismatch marked the runtime invalid: no
\* later call is served.
ExecuteBlockOf_poisoning(h, n) ==
    /\ pc \in {"genesis", "idle"}
    /\ ~panicked
    /\ \E o \in inc_block_number(block_number) :
          /\ ~o.panic
          /\ block_number' = o.val
          /\ header' = h
          /\ len' = n
          /\ i' = 0
          /\ ext' = NoExt
          /\ res' = NoRes
          /\ stderr' = <<>>
          /\ IF block_number_invalid(o.val, h)
             THEN /\ pc' = "invalid"
                  /\ result' = Err("The current block number is invalid.")
             ELSE /\ pc' = "loop"
                  /\ result' = NoRes
    /\ calls' = calls + 1
    /\ UNCHANGED <<nonce, balances, claims, panicked, included>>

\* execute_block as it would be if the block number were advanced only for a
\* block that is accepted.
ExecuteBlockOf_counting_accepted(h, n) ==
    /\ pc \in {"genesis", "idle"}
    /\ ~panicked
    /\ \E o \in inc_block_number(block_number) :
          /\ ~o.panic
          /\ header' = h
          /\ len' = n
          /\ i' = 0
          /\ ext' = NoExt
          /\ res' = NoRes
          /\ stderr' = <<>>
          /\ IF block_number_invalid(o.val, h)
             THEN /\ block_number' = block_number
                  /\ pc' = "idle"
                  /\ result' = Err("The current block number is invalid.")
             ELSE /\ block_number' = o.val
                  /\ pc' = "loop"
                  /\ result' = NoRes
    /\ calls' = calls + 1
    /\ UNCHANGED <<nonce, balances, claims, panicked, included>>

\* Runtime::execute_block on a block of header number h and n extrinsics, up to
\* the for loop: the block number is incremented, then checked against the
\* header; a mismatch returns the error at once.
ExecuteBlockOf(h, n) ==
    /\ pc \in {"genesis", "idle"}
    /\ ~panicked
    /\ \E o \in inc_block_number(block_number) :
          IF o.panic
          THEN /\ panicked' = TRUE
               /\ UNCHANGED <<block_number, pc, header, len, i, ext, res, stderr, result>>
          ELSE /\ block_number' = o.val
               /\ header' = h
               /\ len' = n
               /\ i' = 0
               /\ ext' = NoExt
               /\ res' = NoRes
               /\ stderr' = <<>>
               /\ IF block_number_invalid(o.val, h)
                  THEN /\ pc' = "idle"
                       /\ result' = Err("The current block number is invalid.")
                  ELSE /\ pc' = "loop"
                       /\ result' = NoRes
               /\ UNCHANGED panicked
    /\ calls' = calls + 1
    /\ UNCHANGED <<nonce, balances, claims, included>>

ExecuteBlock ==
    /\ U32(block_number) < MaxBlocks
    /\ \E h \in Headers, n \in 0..MaxExtrinsics :
          /\ NonceSum(nonce, DOMAIN nonce) + n <= MaxCalls
          /\ ExecuteBlockOf(h, n)

\* The iteration as it would be with dispatch(caller, call)? in the loop: the
\* first failing extrinsic ends execute_block with its error.
ExecuteExtrinsicOf_propagating(e) ==
    /\ pc = "loop"
    /\ ~panicked
    /\ i < len
    /\ \E o \in inc_nonce(nonce, e.caller) :
          /\ ~o.panic
          /\ LET d == dispatch(balances, claims, e.caller, e.call)
             IN  /\ nonce' = o.val
                 /\ balances' = d.balances
                 /\ claims' = d.claims
                 /\ i' = i + 1
                 /\ ext' = e
                 /\ res' = d.res
                 /\ stderr' = stderr
                 /\ pc' = IF d.res = Ok THEN "loop" ELSE "idle"
                 /\ result' = IF d.res = Ok THEN result ELSE d.res
    /\ included' = [included EXCEPT ![e.caller] = @ + 1]
    /\ UNCHANGED <<block_number, header, len, panicked, calls>>

\* One iteration of the for loop of execute_block, on the extrinsic e: the
\* caller's nonce is incremented, the call dispatched, and a failure printed
\* to stderr.
ExecuteExtrinsicOf(e) ==
    /\ pc = "loop"
    /\ ~panicked
    /\ i < len
    /\ \E o \in inc_nonce(nonce, e.caller) :
          IF o.panic
          THEN /\ panicked' = TRUE
               /\ UNCHANGED <<nonce, balances, claims, i, ext, res, stderr, included>>
          ELSE LET d == dispatch(balances, claims, e.caller, e.call)
               IN  /\ nonce' = o.val
                   /\ balances' = d.balances
                   /\ claims' = d.claims
                   /\ i' = i + 1
                   /\ ext' = e
                   /\ res' = d.res
                   /\ stderr' = map_err(stderr, header, i, d.res)
                   /\ included' = [included EXCEPT ![e.caller] = @ + 1]
                   /\ UNCHANGED panicked
    /\ UNCHANGED <<block_number, pc, header, len, result, calls>>

ExecuteExtrinsic == \E e \in Extrinsic : ExecuteExtrinsicOf(e)

\* The end of execute_block: the iterator is exhausted and Ok(()) is returned.
ReturnOk ==
    /\ pc = "loop"
    /\ ~panicked
    /\ i = len
    /\ pc' = "idle"
    /\ result' = Ok
    /\ ext' = NoExt
    /\ res' = NoRes
    /\ UNCHANGED <<block_number, nonce, balances, claims, header, len, i, stderr,
                   panicked, calls, included>>

Next == SetBalance \/ ExecuteBlock \/ ExecuteExtrinsic \/ ReturnOk

Spec == Init /\ [][Next]_vars

----------------------------------------------------------------------------
(* execute_block as one call: the function from the runtime and a whole    *)
(* block to the runtime the call leaves and the value it returns.  A       *)
(* runtime is the record of the pallets' fields, with what the call has    *)
(* written to stderr, what it returned, how far into the block it came     *)
(* and the extrinsics it has taken.                                        *)

\* types::Block
Block(h, exts) == [header |-> h, extrinsics |-> exts]

\* The for loop as it would be if it went through the extrinsics from the
\* last to the first.
RECURSIVE for_extrinsics_reversed(_, _, _)
for_extrinsics_reversed(rt, blk, idx) ==
    IF rt.panicked \/ idx = Len(blk.extrinsics) THEN {rt}
    ELSE LET e == blk.extrinsics[Len(blk.extrinsics) - idx]
         IN  UNION {IF o.panic
                    THEN {[rt EXCEPT !.panicked = TRUE]}
                    ELSE LET d == dispatch(rt.balances, rt.claims, e.caller, e.call)
                         IN  for_extrinsics_reversed(
                                 [rt EXCEPT !.nonce = o.val,
                                            !.balances = d.balances,
                                            !.claims = d.claims,
                                            !.i = idx + 1,
                                            !.ext = e,
                                            !.res = d.res,
                                            !.stderr = map_err(rt.stderr, blk.header, idx, d.res),
                                            !.included[e.caller] = @ + 1],
                                 blk, idx + 1) :
                       o \in inc_nonce(rt.nonce, e.caller)}

\* The for loop as it would be if the nonce were incremented after dispatch,
\* and only for a call that succeeded.
RECURSIVE for_extrinsics_counting_successes(_, _, _)
for_extrinsics_counting_successes(rt, blk, idx) ==
    IF rt.panicked \/ idx = Len(blk.extrinsics) THEN {rt}
    ELSE LET e == blk.extrinsics[idx + 1]
             d == dispatch(rt.balances, rt.claims, e.caller, e.call)
         IN  UNION {IF o.panic
                    THEN {[rt EXCEPT !.panicked = TRUE]}
                    ELSE for_extrinsics_counting_successes(
                             [rt EXCEPT !.nonce = IF d.res = Ok THEN o.val ELSE rt.nonce,
                                        !.balances = d.balances,
                                        !.claims = d.claims,
                                        !.i = idx + 1,
                                        !.ext = e,
                                        !.res = d.res,
                                        !.stderr = map_err(rt.stderr, blk.header, idx, d.res),
                                        !.included[e.caller] = @ + 1],
                             blk, idx + 1) :
                       o \in inc_nonce(rt.nonce, e.caller)}

\* The for loop of execute_block from the extrinsic of index idx on: the
\* runtimes it can end in (one, unless a nonce overflows).  An iteration is
\* ExecuteExtrinsicOf: a panic of inc_nonce leaves the runtime where the
\* iterations before it have brought it.
RECURSIVE for_extrinsics(_, _, _)
for_extrinsics(rt, blk, idx) ==
    IF rt.panicked \/ idx = Len(blk.extrinsics) THEN {rt}
    ELSE LET e == blk.extrinsics[idx + 1]
         IN  UNION {IF o.panic
                    THEN {[rt EXCEPT !.panicked = TRUE]}
                    ELSE LET d == dispatch(rt.balances, rt.claims, e.caller, e.call)
                         IN  for_extrinsics(
                                 [rt EXCEPT !.nonce = o.val,
                                            !.balances = d.balances,
                                            !.claims = d.claims,
                                            !.i = idx + 1,
                                            !.ext = e,
                                            !.res = d.res,
                                            !.stderr = map_err(rt.stderr, blk.header, idx, d.res),
                                            !.included[e.caller] = @ + 1],
                                 blk, idx + 1) :
                       o \in inc_nonce(rt.nonce, e.caller)}

\* Runtime::execute_block: the runtimes the call can end in.  A panic of
\* inc_block_number leaves the runtime as the call found it; a panic in the
\* loop leaves it inside the loop, with no value returned.
execute_block(rt, blk) ==
    UNION {IF o.panic
           THEN {[rt EXCEPT !.panicked = TRUE]}
           ELSE LET r == [rt EXCEPT !.block_number = o.val,
                                    !.header = blk.header,
                                    !.len = Len(blk.extrinsics),
                                    !.i = 0,
                                    !.ext = NoExt,
                                    !.res = NoRes,
                                    !.stderr = <<>>]
                IN  IF block_number_invalid(o.val, blk.header)
                    THEN {[r EXCEPT !.pc = "idle",
                                    !.result = Err("The current block number is invalid.")]}
                    ELSE {IF x.panicked
                          THEN x
                          ELSE [x EXCEPT !.pc = "idle", !.result = Ok,
                                         !.ext = NoExt, !.res = NoRes] :
                             x \in for_extrinsics([r EXCEPT !.pc = "loop", !.result = NoRes],
                                                  blk, 0)} :
              o \in inc_block_number(rt.block_number)}

\* The extrinsics of main.
Transfer(from, to, n) ==
    [caller |-> from,
     call |-> [pallet |-> "balances",
               call |-> [name |-> "transfer", to |-> to, amount |-> Lit(n, BalanceLimbs)]]]

CreateClaim(who, claim) ==
    [caller |-> who,
     call |-> [pallet |-> "proof_of_existence",
               call |-> [name |-> "create_claim", claim |-> claim]]]

RevokeClaim(who, claim) ==
    [caller |-> who,
     call |-> [pallet |-> "proof_of_existence",
               call |-> [name |-> "revoke_claim", claim |-> claim]]]

\* block_1 of main
block_1 ==
    Block(Lit(1, BlockNumberLimbs),
          <<Transfer("alice", "bob", 30), Transfer("alice", "charlie", 20)>>)

\* block_2 of main: its last extrinsic is a revoke_claim by bob.
block_2 ==
    Block(Lit(2, BlockNumberLimbs),
          <<CreateClaim("alice", "Hello"), CreateClaim("bob", "Hello"),
            RevokeClaim("alice", "Hello"), RevokeClaim("bob", "Hello")>>)

\* A list of extrinsics main does not pass: the first three of block_2, and
\* then a create_claim of "Hello" by bob where block_2 has bob's revoke_claim.
ScenarioExtrinsics ==
    <<CreateClaim("alice", "Hello"), CreateClaim("bob", "Hello"),
      RevokeClaim("alice", "Hello"), CreateClaim("bob", "Hello")>>

\* The same four extrinsics in every order.
Orders ==
    {[k \in 1..Len(ScenarioExtrinsics) |-> ScenarioExtrinsics[p[k]]] :
        p \in Permutations(1..Len(ScenarioExtrinsics))}

\* The blocks a caller of execute_block may pass: the two lists of main, the
\* list above and its orders, under every header number.
Blocks ==
    {Block(h, x) : h \in Headers,
                   x \in {block_1.extrinsics, block_2.extrinsics} \cup Orders}

\* The runtime as a record: the pallets' fields, stderr, the value returned,
\* and the position and the history of the call.
Runtime ==
    [block_number |-> block_number, nonce |-> nonce, balances |-> balances,
     claims |-> claims, pc |-> pc, header |-> header, len |-> len, i |-> i,
     ext |-> ext, res |-> res, stderr |-> stderr, result |-> result,
     panicked |-> panicked, included |-> included]

\* runtime.balances.set_balance(&who, amount), before or between blocks.
SetBalanceCallOf(who, amount) ==
    /\ pc \in {"genesis", "idle"}
    /\ ~panicked
    /\ balances' = set_balance(balances, who, amount)
    /\ UNCHANGED <<block_number, nonce, claims, pc, header, len, i, ext, res,
                   stderr, result, panicked, calls, included>>

SetBalanceCall == \E who \in Callers, amount \in SeedAmounts : SetBalanceCallOf(who, amount)

\* runtime.execute_block(blk), from the call to its return or its panic.
ExecuteBlockCallOf(blk) ==
    /\ pc \in {"genesis", "idle"}
    /\ ~panicked
    /\ \E r \in execute_block(Runtime, blk) :
          /\ block_number' = r.block_number
          /\ nonce' = r.nonce
          /\ balances' = r.balances
          /\ claims' = r.claims
          /\ pc' = r.pc
          /\ header' = r.header
          /\ len' = r.len
          /\ i' = r.i
          /\ ext' = r.ext
          /\ res' = r.res
          /\ stderr' = r.stderr
          /\ result' = r.result
          /\ panicked' = r.panicked
          /\ included' = r.included
    /\ calls' = calls + 1

ExecuteBlockCall ==
    /\ U32(block_number) < MaxBlocks
    /\ \E blk \in Blocks : ExecuteBlockCallOf(blk)

NextCalls == SetBalanceCall \/ ExecuteBlockCall

SpecCalls == Init /\ [][NextCalls]_vars

----------------------------------------------------------------------------
(* Runtime::dispatch called on its own: one call on a runtime whose        *)
(* balances and claims the pallets' methods have built before.             *)

\* The balances maps set_balance can have built: any accounts, each with one
\* of the amounts.
BalancesMaps ==
    UNION {[S -> SeedAmounts \cup {Lit(20, BalanceLimbs)}] : S \in SUBSET AccountId}

\* The claims maps create_claim can have built.
ClaimsMaps ==
    UNION {[S -> Callers] : S \in SUBSET Content}

InitDispatch ==
    /\ block_number = Zero(BlockNumberLimbs)
    /\ nonce = EmptyMap
    /\ balances \in BalancesMaps
    /\ claims \in ClaimsMaps
    /\ pc = "genesis"
    /\ header = Zero(BlockNumberLimbs)
    /\ len = 0
    /\ i = 0
    /\ ext = NoExt
    /\ res = NoRes
    /\ stderr = <<>>
    /\ result = NoRes
    /\ panicked = FALSE
    /\ calls = 0
    /\ included = [a \in AccountId |-> 0]

\* runtime.dispatch(e.caller, e.call): the pallets' maps are what the call
\* leaves and res is what it returns; the System pallet is not touched.
DispatchCallOf(e) ==
    /\ pc = "genesis"
    /\ ~panicked
    /\ LET d == dispatch(balances, claims, e.caller, e.call)
       IN  /\ balances' = d.balances
           /\ claims' = d.claims
           /\ res' = d.res
    /\ ext' = e
    /\ pc' = "idle"
    /\ UNCHANGED <<block_number, nonce, header, len, i, stderr, result, panicked,
                   calls, included>>

DispatchCall == \E e \in Extrinsic : DispatchCallOf(e)

NextDispatch == DispatchCall

SpecDispatch == InitDispatch /\ [][NextDispatch]_vars

----------------------------------------------------------------------------
(* The runtime at the end of the range of its u32 counters: the block      *)
(* number and alice's nonce after 2^32 - 2 or 2^32 - 1 increments.         *)

\* The maximum and the value before it.
NearMax(w) == {MaxValue(w), wrapping_sub(MaxValue(w), One(w))}

\* The header numbers a block may declare there: the last two numbers, and 0,
\* which is what a wrapped block number is.
HeadersNearMax == NearMax(BlockNumberLimbs) \cup {Zero(BlockNumberLimbs)}

InitNearMax ==
    /\ block_number \in NearMax(BlockNumberLimbs)
    /\ nonce \in {[a \in {"alice"} |-> n] : n \in NearMax(NonceLimbs)}
    /\ balances = EmptyMap
    /\ claims = EmptyMap
    /\ pc = "idle"
    /\ header = Zero(BlockNumberLimbs)
    /\ len = 0
    /\ i = 0
    /\ ext = NoExt
    /\ res = NoRes
    /\ stderr = <<>>
    /\ result = NoRes
    /\ panicked = FALSE
    /\ calls = 0
    /\ included = [a \in AccountId |-> 0]

\* execute_block while the block number is one of the last two.
ExecuteBlockNearMax ==
    /\ block_number \in NearMax(BlockNumberLimbs)
    /\ \E h \in HeadersNearMax, n \in 0..MaxExtrinsics : ExecuteBlockOf(h, n)

NextNearMax == ExecuteBlockNearMax \/ ExecuteExtrinsic \/ ReturnOk

SpecNearMax == InitNearMax /\ [][NextNearMax]_vars

----------------------------------------------------------------------------
(* Blocks of claims: execute_block, step by step, on blocks long enough    *)
(* for content to be claimed, revoked and claimed again.                   *)

\* The number of extrinsics a block of claims carries at most.
MaxClaimExtrinsics == 3

\* The extrinsics whose call goes to the proof_of_existence pallet.
ClaimExtrinsics == {e \in Extrinsic : e.call.pallet = "proof_of_existence"}

ExecuteBlockClaims ==
    /\ U32(block_number) < MaxBlocks
    /\ \E h \in Headers, n \in 0..MaxClaimExtrinsics : ExecuteBlockOf(h, n)

ExecuteClaimExtrinsic == \E e \in ClaimExtrinsics : ExecuteExtrinsicOf(e)

NextClaims == ExecuteBlockClaims \/ ExecuteClaimExtrinsic \/ ReturnOk

SpecClaims == Init /\ [][NextClaims]_vars

----------------------------------------------------------------------------
(* Arithmetic for stating the properties, written apart from the limb      *)
(* arithmetic the model of the code uses.                                  *)

\* x < y, comparing from the most significant limb down.
Less(x, y) ==
    \E k \in 1..Len(x) :
        /\ x[k] < y[k]
        /\ \A j \in (k + 1)..Len(x) : x[j] = y[j]

\* y = x + 1 exactly: the low limbs of x that are full become 0, the next one
\* grows by one, the rest are kept.  No y is the successor of the maximum.
IsSucc(x, y) ==
    \E k \in 1..Len(x) :
        /\ \A j \in 1..(k - 1) : x[j] = LimbBase - 1 /\ y[j] = 0
        /\ y[k] = x[k] + 1
        /\ y[k] < LimbBase
        /\ \A j \in (k + 1)..Len(x) : y[j] = x[j]

\* z = x + y exactly (no overflow), checked limb by limb from limb k with carry c.
RECURSIVE SumsFrom(_, _, _, _, _)
SumsFrom(x, y, z, k, c) ==
    IF k > Len(x) THEN c = 0
    ELSE /\ (x[k] + y[k] + c) % LimbBase = z[k]
         /\ SumsFrom(x, y, z, k + 1, (x[k] + y[k] + c) \div LimbBase)

IsSum(x, y, z) == SumsFrom(x, y, z, 1, 0)

\* x + y exceeds the maximum of the type: x > MAX - y.
Exceeds(x, y) == Less([k \in 1..Len(y) |-> LimbBase - 1 - y[k]], x)

\* The sum of all balances, one limb wider than a balance so that it cannot wrap.
RECURSIVE TotalOf(_, _)
TotalOf(b, S) ==
    IF S = {} THEN Zero(BalanceLimbs + 1)
    ELSE LET a == CHOOSE x \in S : TRUE
         IN  wrapping_add(Append(b[a], 0), TotalOf(b, S \ {a}))

Total(b) == TotalOf(b, DOMAIN b)

IsTransfer(e) == e.call.pallet = "balances"

IsCreate(e) == e.call.pallet = "proof_of_existence" /\ e.call.call.name = "create_claim"

IsRevoke(e) == e.call.pallet = "proof_of_existence" /\ e.call.call.name = "revoke_claim"

BlockNumberMismatch == Err("The current block number is invalid.")

\* A step that is one iteration of the loop of execute_block; ext' is the
\* extrinsic it has taken, res' what dispatch returned for it.
Iteration == pc = "loop" /\ i' = i + 1

----------------------------------------------------------------------------
\* C1: whenever execute_block is called in a state with block number n on a
\* block whose header number is not n + 1, it returns the block-number error
\* and the block number afterwards is n + 1.
C1_MismatchRejectedAndCounted ==
    [][\A h \in Headers, n \in 0..MaxExtrinsics :
          (ExecuteBlockOf(h, n) /\ ~IsSucc(block_number, h))
              => /\ result' = BlockNumberMismatch
                 /\ pc' = "idle"
                 /\ IsSucc(block_number, block_number')]_vars

\* A second call that replays header 1 was rejected and the number is now 2.
C1_Witness ==
    /\ result = BlockNumberMismatch
    /\ header = Lit(1, BlockNumberLimbs)
    /\ block_number = Lit(2, BlockNumberLimbs)

\* C2: when execute_block rejects a block for a block-number mismatch, every
\* nonce, balance and claim is what it was before the call, whatever the number
\* of extrinsics the block carries, and none of them is processed afterwards:
\* the loop never runs on behalf of a rejected call.
C2_RejectedBlockTouchesNothing ==
    /\ [][\A h \in Headers, n \in 0..MaxExtrinsics :
             (ExecuteBlockOf(h, n) /\ ~IsSucc(block_number, h))
                 => /\ nonce' = nonce
                    /\ balances' = balances
                    /\ claims' = claims
                    /\ pc' = "idle"]_vars
    /\ [](result = BlockNumberMismatch => pc = "idle")
    /\ [][Iteration => (header = block_number /\ result /= BlockNumberMismatch)]_vars

\* A rejected block of one extrinsic, after a block in which alice's transfer
\* was processed: her nonce and balance are those the first block left.
C2_Witness ==
    /\ result = BlockNumberMismatch
    /\ pc = "idle"
    /\ len = 1
    /\ block_number = Lit(2, BlockNumberLimbs)
    /\ nonce = [a \in {"alice"} |-> Lit(1, NonceLimbs)]
    /\ balance(balances, "alice") = Lit(80, BalanceLimbs)
    /\ balance(balances, "bob") = Lit(20, BalanceLimbs)

\* C3: a block whose header number matches is executed to its end and returns
\* Ok however many of its extrinsics fail: the call enters the loop, the loop
\* is left only by the return of Ok after every extrinsic has been taken, and
\* after a failed dispatch the loop goes on: a further extrinsic (the failed
\* one again, for instance) can be taken and is applied, or Ok is returned when
\* none remains.
C3_AcceptedBlockReturnsOk ==
    /\ [][(ExecuteBlockOf(header', len') /\ IsSucc(block_number, header'))
             => (pc' = "loop" /\ i' = 0)]_vars
    /\ [][(pc = "loop" /\ pc' /= "loop") => (i = len /\ result' = Ok)]_vars
    /\ []((pc = "loop" /\ res /= NoRes /\ res /= Ok)
             => IF i < len THEN ENABLED ExecuteExtrinsicOf(ext) ELSE ENABLED ReturnOk)
    /\ [][(Iteration /\ res /= NoRes /\ res /= Ok)
             => LET d == dispatch(balances, claims, ext'.caller, ext'.call)
                IN  balances' = d.balances /\ claims' = d.claims]_vars

\* The example: alice is seeded with 100; in block 1 her transfer of 500 fails
\* and her transfer of 20 to charlie is applied; the block returns Ok.
C3_Witness ==
    /\ result = Ok
    /\ pc = "idle"
    /\ block_number = Lit(1, BlockNumberLimbs)
    /\ stderr = <<report(Lit(1, BlockNumberLimbs), 0, "Insufficient funds.")>>
    /\ balances = [a \in {"alice", "charlie"} |->
                      IF a = "alice" THEN Lit(80, BalanceLimbs) ELSE Lit(20, BalanceLimbs)]

\* C4: every extrinsic processed in an accepted block raises its caller's
\* nonce by exactly one (from zero when the account had none), whether the
\* dispatched call succeeds or fails; the nonce of no other account changes,
\* and no other step changes any nonce.
C4_NonceCountsEveryExtrinsic ==
    /\ [][Iteration
             => /\ IsSucc(unwrap_or(Get(nonce, ext'.caller), Zero(NonceLimbs)),
                          unwrap_or(Get(nonce', ext'.caller), Zero(NonceLimbs)))
                /\ \A a \in AccountId \ {ext'.caller} : Get(nonce', a) = Get(nonce, a)]_vars
    /\ [][nonce' /= nonce => Iteration]_vars

\* alice has sent two extrinsics, the second of which failed; her nonce is 2
\* and no other account has a nonce.
C4_Witness ==
    /\ pc = "loop"
    /\ i = 2
    /\ res /= NoRes
    /\ res /= Ok
    /\ Len(stderr) = 1
    /\ nonce = [a \in {"alice"} |-> Lit(2, NonceLimbs)]

\* C5: a transfer of more than the caller's balance fails with the
\* insufficient-funds error and leaves the balances map as it was.
C5_InsufficientFundsRejected ==
    [][(Iteration /\ IsTransfer(ext')
           /\ Less(balance(balances, ext'.caller), ext'.call.call.amount))
          => (res' = Err("Insufficient funds.") /\ balances' = balances)]_vars

\* alice, who holds 100, has tried to send 500 to bob.
C5_Witness ==
    /\ pc = "loop"
    /\ ext /= NoExt
    /\ IsTransfer(ext)
    /\ ext.caller = "alice"
    /\ ext.call.call.to = "bob"
    /\ ext.call.call.amount = Lit(500, BalanceLimbs)
    /\ balance(balances, "alice") = Lit(100, BalanceLimbs)
    /\ res = Err("Insufficient funds.")

\* C6: after a successful transfer between two different accounts the caller
\* holds its previous balance minus the amount, the recipient its previous
\* balance plus the amount, every other account what it held, and the sum of
\* all balances is what it was.
C6_TransferMovesExactlyAmount ==
    [][(Iteration /\ IsTransfer(ext') /\ res' = Ok /\ ext'.caller /= ext'.call.call.to)
          => LET a == ext'.caller
                 b == ext'.call.call.to
                 amt == ext'.call.call.amount
             IN  /\ IsSum(balance(balances', a), amt, balance(balances, a))
                 /\ IsSum(balance(balances, b), amt, balance(balances', b))
                 /\ \A x \in AccountId \ {a, b} : Get(balances', x) = Get(balances, x)
                 /\ Total(balances') = Total(balances)]_vars

\* alice, seeded with 100, has sent 20 to charlie; bob, seeded with the
\* maximum, holds it still.
C6_Witness ==
    /\ pc = "loop"
    /\ ext /= NoExt
    /\ IsTransfer(ext)
    /\ res = Ok
    /\ ext.caller = "alice"
    /\ ext.call.call.to = "charlie"
    /\ ext.call.call.amount = Lit(20, BalanceLimbs)
    /\ balance(balances, "alice") = Lit(80, BalanceLimbs)
    /\ balance(balances, "charlie") = Lit(20, BalanceLimbs)
    /\ balance(balances, "bob") = MaxValue(BalanceLimbs)

\* C7 as stated: a transfer of an account to itself of an amount that does not
\* exceed its balance succeeds and leaves its balance as it was.
C7_SelfTransferKeepsBalance ==
    [][(Iteration /\ IsTransfer(ext') /\ ext'.caller = ext'.call.call.to
           /\ ~Less(balance(balances, ext'.caller), ext'.call.call.amount))
          => /\ res' = Ok
             /\ balance(balances', ext'.caller) = balance(balances, ext'.caller)]_vars

\* C8: a transfer the caller can afford, to a recipient whose balance plus the
\* amount exceeds the maximum, fails with the overflow error and leaves the
\* balances map as it was: the caller is not debited.
C8_OverflowRejectedWithoutDebit ==
    [][(Iteration /\ IsTransfer(ext')
           /\ ~Less(balance(balances, ext'.caller), ext'.call.call.amount)
           /\ Exceeds(balance(balances, ext'.call.call.to), ext'.call.call.amount))
          => (res' = Err("Overflow.") /\ balances' = balances)]_vars

\* alice, who holds 100, has tried to send 20 to bob, who holds the maximum.
C8_Witness ==
    /\ pc = "loop"
    /\ ext /= NoExt
    /\ IsTransfer(ext)
    /\ ext.caller = "alice"
    /\ ext.call.call.to = "bob"
    /\ ext.call.call.amount = Lit(20, BalanceLimbs)
    /\ balance(balances, "alice") = Lit(100, BalanceLimbs)
    /\ balance(balances, "bob") = MaxValue(BalanceLimbs)
    /\ res = Err("Overflow.")

\* C9: create_claim on unclaimed content succeeds and makes the caller its
\* owner; create_claim on claimed content fails with the already-claimed error
\* and leaves the claims, and so the owner, as they were.
C9_CreateClaimOnce ==
    [][(Iteration /\ IsCreate(ext'))
          => LET c == ext'.call.call.claim
             IN  IF get_claim(claims, c) = None
                 THEN /\ res' = Ok
                      /\ get_claim(claims', c) = Some(ext'.caller)
                 ELSE /\ res' = Err("This content is already been claimed.")
                      /\ claims' = claims]_vars

\* alice owns Hello and bob's create_claim on it has just failed.
C9_Witness ==
    /\ pc = "loop"
    /\ ext /= NoExt
    /\ IsCreate(ext)
    /\ ext.caller = "bob"
    /\ res = Err("This content is already been claimed.")
    /\ get_claim(claims, "Hello") = Some("alice")

\* C10: revoke_claim fails with claim-not-found on unclaimed content and with
\* not-claim-owner on content another account owns, leaving the claims as they
\* were; by the owner it succeeds and the content is unclaimed afterwards.
C10_RevokeOnlyByOwner ==
    [][(Iteration /\ IsRevoke(ext'))
          => LET c == ext'.call.call.claim
             IN  IF get_claim(claims, c) = None
                 THEN res' = Err("Claim does not exist.") /\ claims' = claims
                 ELSE IF get_claim(claims, c) /= Some(ext'.caller)
                 THEN /\ res' = Err("This content is owned by some other user.")
                      /\ claims' = claims
                 ELSE res' = Ok /\ get_claim(claims', c) = None]_vars

\* bob's revoke of alice's claim failed in block 1 and left her the owner.
C10_Witness ==
    /\ pc = "idle"
    /\ result = Ok
    /\ stderr = <<report(Lit(1, BlockNumberLimbs), 1,
                         "This content is owned by some other user.")>>
    /\ get_claim(claims, "Hello") = Some("alice")

\* C11: every call of execute_block raises the block number by exactly one,
\* whether the block is accepted or rejected, and nothing else changes it: the
\* number never decreases, never stays through a call and never skips.
C11_BlockNumberUpByOnePerCall ==
    /\ [][ExecuteBlockOf(header', len') => IsSucc(block_number, block_number')]_vars
    /\ [][block_number' /= block_number
             => (ExecuteBlockOf(header', len') /\ IsSucc(block_number, block_number'))]_vars

\* Two calls have been made, the second of an empty block 2 that was accepted:
\* the number is 2.
C11_Witness ==
    /\ pc = "idle"
    /\ result = Ok
    /\ len = 0
    /\ header = Lit(2, BlockNumberLimbs)
    /\ block_number = Lit(2, BlockNumberLimbs)

\* C12: a rejected block does not leave the runtime stuck: in every state
\* between two calls, after a rejection included, execute_block can be called
\* on a block whose header number is the block number plus one; that call is
\* accepted (it enters the loop over the block's extrinsics and does not return
\* the mismatch error), and at the end of the loop Ok is returned.
C12_RejectionLeavesRuntimeUsable ==
    /\ [](pc /= "loop"
             => \A h \in Headers, n \in 0..MaxExtrinsics :
                   IsSucc(block_number, h)
                       => ENABLED (ExecuteBlockOf(h, n) /\ pc' = "loop" /\ len' = n))
    /\ [][(result = BlockNumberMismatch /\ ExecuteBlockOf(header', len')
              /\ IsSucc(block_number, header'))
             => (pc' = "loop" /\ i' = 0 /\ result' /= BlockNumberMismatch)]_vars
    /\ []((pc = "loop" /\ i = len) => ENABLED (ReturnOk /\ result' = Ok))

\* Block 2 was sent first and rejected; the block number is 1 and a block of
\* header number 2 can now be executed.
C12_Witness ==
    /\ pc = "idle"
    /\ result = BlockNumberMismatch
    /\ header = Lit(2, BlockNumberLimbs)
    /\ block_number = Lit(1, BlockNumberLimbs)
    /\ ENABLED (ExecuteBlockOf(Lit(2, BlockNumberLimbs), 1) /\ pc' = "loop")

\* One extrinsic applied to the nonces, balances and claims st: the caller's
\* nonce goes up by one and the call is dispatched.
Applied(st, e) ==
    LET d == dispatch(st.balances, st.claims, e.caller, e.call)
    IN  [nonce |-> Insert(st.nonce, e.caller,
                          wrapping_add(unwrap_or(Get(st.nonce, e.caller), Zero(NonceLimbs)),
                                       One(NonceLimbs))),
         balances |-> d.balances,
         claims |-> d.claims]

\* The left-to-right fold of Applied over the list s, defined on its prefixes:
\* the fold of s is its last extrinsic applied to the fold of what precedes it.
RECURSIVE Fold(_, _)
Fold(st, s) ==
    IF s = <<>> THEN st
    ELSE Applied(Fold(st, SubSeq(s, 1, Len(s) - 1)), s[Len(s)])

\* The four extrinsics with the two create_claim of bob before the revoke.
RevokeLast ==
    <<CreateClaim("alice", "Hello"), CreateClaim("bob", "Hello"),
      CreateClaim("bob", "Hello"), RevokeClaim("alice", "Hello")>>

\* The four extrinsics with the revoke first and alice's create_claim next.
RevokeFirst ==
    <<RevokeClaim("alice", "Hello"), CreateClaim("alice", "Hello"),
      CreateClaim("bob", "Hello"), CreateClaim("bob", "Hello")>>

\* An order in which bob's create_claim comes first.
BobFirst ==
    <<CreateClaim("bob", "Hello"), CreateClaim("alice", "Hello"),
      RevokeClaim("alice", "Hello"), CreateClaim("bob", "Hello")>>

\* The nonces, balances and claims an accepted block leaves are the
\* left-to-right fold of its extrinsics over those it found.
FoldedInOrder ==
    [][\A blk \in Blocks :
          (ExecuteBlockCallOf(blk) /\ result' = Ok)
              => [nonce |-> nonce', balances |-> balances', claims |-> claims']
                   = Fold([nonce |-> nonce, balances |-> balances, claims |-> claims],
                          blk.extrinsics)]_vars

\* C13, as stated: the nonces, balances and claims an accepted block leaves
\* are the left-to-right fold of its extrinsics over those it found; on
\* unclaimed content, create by alice, create by bob, revoke by alice, create
\* by bob ends with bob as owner, and no other order of these four extrinsics
\* does.
C13_OnlyListedOrderEndsWithBob ==
    /\ FoldedInOrder
    /\ [][(ExecuteBlockCallOf(Block(header', ScenarioExtrinsics))
              /\ result' = Ok /\ claims = EmptyMap)
             => get_claim(claims', "Hello") = Some("bob")]_vars
    /\ [][\A o \in Orders \ {ScenarioExtrinsics} :
             (ExecuteBlockCallOf(Block(header', o)) /\ result' = Ok /\ claims = EmptyMap)
                 => get_claim(claims', "Hello") /= Some("bob")]_vars

\* C13, amended: the nonces, balances and claims an accepted block leaves are
\* the left-to-right fold of its extrinsics over those it found, each
\* extrinsic applied to what the ones before it left.  The order matters, but
\* not every change of it changes the owner: of the twelve orders of create by
\* alice, create by bob, revoke by alice, create by bob on unclaimed content,
\* the one with the revoke last after alice's create ends with the content
\* unclaimed, the one with the revoke first and alice's create next ends with
\* alice as owner, and the ten others, the listed one among them, end with
\* bob as owner.
C13_ExtrinsicsFoldedInOrder ==
    /\ Cardinality(Orders) = 12
    /\ {ScenarioExtrinsics, RevokeLast, RevokeFirst, BobFirst} \subseteq Orders
    /\ Cardinality({ScenarioExtrinsics, RevokeLast, RevokeFirst, BobFirst}) = 4
    /\ FoldedInOrder
    /\ [][\A o \in Orders :
             (ExecuteBlockCallOf(Block(header', o)) /\ result' = Ok /\ claims = EmptyMap)
                 => get_claim(claims', "Hello")
                      = IF o = RevokeLast THEN None
                        ELSE IF o = RevokeFirst THEN Some("alice")
                        ELSE Some("bob")]_vars

\* An order other than the listed one was executed as block 1, bob's
\* create_claim first: the three extrinsics after it failed, and bob owns
\* Hello.
C13_Witness ==
    /\ pc = "idle"
    /\ result = Ok
    /\ len = 4
    /\ block_number = Lit(1, BlockNumberLimbs)
    /\ stderr = <<report(Lit(1, BlockNumberLimbs), 1,
                         "This content is already been claimed."),
                  report(Lit(1, BlockNumberLimbs), 2,
                         "This content is owned by some other user."),
                  report(Lit(1, BlockNumberLimbs), 3,
                         "This content is already been claimed.")>>
    /\ nonce = [a \in {"alice", "bob"} |-> Lit(2, NonceLimbs)]
    /\ get_claim(claims, "Hello") = Some("bob")

\* The balances of the scenario after block 1.
AfterBlock1 ==
    [a \in {"alice", "bob", "charlie"} |->
        IF a = "alice" THEN Lit(50, BalanceLimbs)
        ELSE IF a = "bob" THEN Lit(30, BalanceLimbs) ELSE Lit(20, BalanceLimbs)]

\* C14: on a new runtime in which only alice has a balance, of 100, executing
\* block 1 = [alice->bob 30, alice->charlie 20] leaves alice 50, bob 30 and
\* charlie 20; executing then block 2 = [alice create_claim Hello, bob
\* create_claim Hello, alice revoke_claim Hello, bob create_claim Hello] returns
\* Ok and leaves bob the owner of Hello.
C14_ScenarioOfTwoBlocks ==
    /\ [][(/\ block_number = Zero(BlockNumberLimbs)
           /\ nonce = EmptyMap
           /\ claims = EmptyMap
           /\ balances = [a \in {"alice"} |-> Lit(100, BalanceLimbs)]
           /\ ExecuteBlockCallOf(block_1))
             => (result' = Ok /\ balances' = AfterBlock1 /\ claims' = EmptyMap)]_vars
    /\ [][(/\ block_number = Lit(1, BlockNumberLimbs)
           /\ nonce = [a \in {"alice"} |-> Lit(2, NonceLimbs)]
           /\ claims = EmptyMap
           /\ balances = AfterBlock1
           /\ ExecuteBlockCallOf(Block(Lit(2, BlockNumberLimbs), ScenarioExtrinsics)))
             => /\ result' = Ok
                /\ get_claim(claims', "Hello") = Some("bob")
                /\ balances' = AfterBlock1]_vars

\* The end of the scenario: two blocks executed, the balances of block 1, four
\* extrinsics of alice and two of bob counted, one report, for bob's first
\* create_claim, and bob the owner of Hello.
C14_Witness ==
    /\ pc = "idle"
    /\ result = Ok
    /\ block_number = Lit(2, BlockNumberLimbs)
    /\ balances = AfterBlock1
    /\ nonce = [a \in {"alice", "bob"} |->
                   IF a = "alice" THEN Lit(4, NonceLimbs) ELSE Lit(2, NonceLimbs)]
    /\ stderr = <<report(Lit(2, BlockNumberLimbs), 1,
                         "This content is already been claimed.")>>
    /\ claims = [c \in {"Hello"} |-> "bob"]

\* A step that writes the balance of a: a set_balance of a, or a successful
\* transfer that a sends or receives.
WritesBalance(a) ==
    \/ \E amount \in SeedAmounts : SetBalanceOf(a, amount)
    \/ Iteration /\ IsTransfer(ext') /\ res' = Ok /\ a \in {ext'.caller, ext'.call.call.to}

\* C15: the new runtime is all-empty: the block number is 0, there is no claim,
\* and every account has balance zero and no nonce.  An account keeps balance
\* zero and no stored balance until a step writes its balance, and no nonce
\* until an extrinsic it sends is processed; in every state an account with no
\* stored balance reads as zero.
C15_NewRuntimeEmpty ==
    /\ block_number = Zero(BlockNumberLimbs)
    /\ claims = EmptyMap
    /\ \A a \in AccountId :
          balance(balances, a) = Zero(BalanceLimbs) /\ Get(nonce, a) = None
    /\ [](\A a \in AccountId \ DOMAIN balances : balance(balances, a) = Zero(BalanceLimbs))
    /\ [][\A a \in AccountId :
             (Get(balances', a) /= Get(balances, a)
                 \/ balance(balances', a) /= balance(balances, a)) => WritesBalance(a)]_vars
    /\ [][\A a \in AccountId :
             Get(nonce', a) /= Get(nonce, a) => (Iteration /\ ext'.caller = a)]_vars

\* After a block in which alice sent 20 to bob, charlie, whom nothing has
\* written, still has no balance entry and no nonce, and reads as zero.
C15_Witness ==
    /\ pc = "idle"
    /\ result = Ok
    /\ balance(balances, "alice") = Lit(80, BalanceLimbs)
    /\ balance(balances, "bob") = Lit(20, BalanceLimbs)
    /\ "charlie" \notin DOMAIN balances
    /\ "charlie" \notin DOMAIN nonce
    /\ balance(balances, "charlie") = Zero(BalanceLimbs)

\* C16: set_balance(a, x) overwrites: after it the balance of a is x whatever it
\* was before (absent, seeded, or left by transfers), the stored balance of
\* every other account is what it was, and nothing else has changed.
C16_SetBalanceOverwrites ==
    [][\A who \in Callers, amount \in SeedAmounts :
          SetBalanceCallOf(who, amount)
              => /\ balance(balances', who) = amount
                 /\ \A a \in AccountId \ {who} : Get(balances', a) = Get(balances, a)
                 /\ UNCHANGED <<block_number, nonce, claims>>]_vars

\* Block 1 of main was executed, which left alice 50 less than her seed, and
\* her balance was then set to 100: bob and charlie keep what they received.
C16_Witness ==
    /\ pc = "idle"
    /\ block_number = Lit(1, BlockNumberLimbs)
    /\ nonce = [a \in {"alice"} |-> Lit(2, NonceLimbs)]
    /\ balance(balances, "alice") = Lit(100, BalanceLimbs)
    /\ balance(balances, "bob") = Lit(30, BalanceLimbs)
    /\ balance(balances, "charlie") = Lit(20, BalanceLimbs)

\* C17 as stated: a call of Runtime::dispatch raises the nonce of its caller by
\* one.
C17_DispatchIncrementsNonce ==
    [][\A e \in Extrinsic :
          DispatchCallOf(e)
              => IsSucc(unwrap_or(Get(nonce, e.caller), Zero(NonceLimbs)),
                        unwrap_or(Get(nonce', e.caller), Zero(NonceLimbs)))]_vars

\* What the module method named by the call of e returns and leaves, called
\* directly with the caller and the arguments of the payload.
Direct(b, c, e) ==
    LET p == e.call.call
    IN  IF IsTransfer(e)
        THEN LET r == transfer(b, e.caller, p.to, p.amount)
             IN  [res |-> r.res, balances |-> r.balances, claims |-> c]
        ELSE IF IsCreate(e)
        THEN LET r == create_claim(c, e.caller, p.claim)
             IN  [res |-> r.res, balances |-> b, claims |-> r.claims]
        ELSE LET r == revoke_claim(c, e.caller, p.claim)
             IN  [res |-> r.res, balances |-> b, claims |-> r.claims]

\* C18: for every caller and every call, Runtime::dispatch returns the result
\* (Ok or the same error) and leaves the balances and claims of the module
\* method called directly with that caller and the arguments of the payload.
C18_DispatchTransparent ==
    [][\A e \in Extrinsic :
          DispatchCallOf(e)
              => LET d == Direct(balances, claims, e)
                 IN  /\ res' = d.res
                     /\ balances' = d.balances
                     /\ claims' = d.claims]_vars

\* bob has called dispatch to revoke the claim alice holds: the error of
\* revoke_claim came back and alice is still the owner.
C18_Witness ==
    /\ pc = "idle"
    /\ ext = RevokeClaim("bob", "Hello")
    /\ res = Err("This content is owned by some other user.")
    /\ get_claim(claims, "Hello") = Some("alice")
    /\ nonce = EmptyMap

\* C19: a dispatched Balances call, successful or not, leaves every claim as it
\* was; a dispatched Proof-of-Existence call, successful or not, leaves every
\* balance as it was; and no dispatched call changes the block number.
C19_PalletsIsolated ==
    [][Iteration
          => /\ IsTransfer(ext') => claims' = claims
             /\ (IsCreate(ext') \/ IsRevoke(ext')) => balances' = balances
             /\ block_number' = block_number]_vars

\* alice holds a claim and a balance; her transfer of 20 to bob has just been
\* applied and the claim is still hers.
C19_Witness ==
    /\ pc = "loop"
    /\ ext = Transfer("alice", "bob", 20)
    /\ res = Ok
    /\ get_claim(claims, "Hello") = Some("alice")
    /\ balance(balances, "alice") = Lit(80, BalanceLimbs)
    /\ balance(balances, "bob") = Lit(20, BalanceLimbs)

\* The errors of the modules.
ModuleErrors ==
    {Err("Insufficient funds."), Err("Overflow."),
     Err("This content is already been claimed."), Err("Claim does not exist."),
     Err("This content is owned by some other user.")}

\* C20: an extrinsic of an accepted block whose dispatch fails, with any of the
\* five errors of the modules, changes nothing but the nonce of its caller,
\* which goes up by one: the balances, the claims, the block number and the
\* nonces of the other accounts are what they were before it.
C20_FailedExtrinsicCostsOnlyNonce ==
    [][(Iteration /\ res' /= Ok)
          => /\ res' \in ModuleErrors
             /\ balances' = balances
             /\ claims' = claims
             /\ block_number' = block_number
             /\ IsSucc(unwrap_or(Get(nonce, ext'.caller), Zero(NonceLimbs)),
                       unwrap_or(Get(nonce', ext'.caller), Zero(NonceLimbs)))
             /\ \A a \in AccountId \ {ext'.caller} : Get(nonce', a) = Get(nonce, a)]_vars

\* On a runtime where nothing is stored, bob's revoke_claim has failed: his
\* nonce is 1 and there is still no balance and no claim.
C20_Witness ==
    /\ pc = "loop"
    /\ ext = RevokeClaim("bob", "Hello")
    /\ res = Err("Claim does not exist.")
    /\ nonce = [a \in {"bob"} |-> Lit(1, NonceLimbs)]
    /\ balances = EmptyMap
    /\ claims = EmptyMap
    /\ block_number = Lit(1, BlockNumberLimbs)

\* C21: during an accepted block an extrinsic whose dispatch fails adds exactly
\* one report to stderr, after those already written, and an extrinsic that
\* succeeds adds none; the report carries the header number of the block, the
\* zero-based position of the extrinsic in the block and the error dispatch
\* returned.  Nothing else writes a report: a call starts with none written.
C21_OneReportPerFailure ==
    /\ [][Iteration
             => IF res' = Ok
                THEN stderr' = stderr
                ELSE /\ Len(stderr') = Len(stderr) + 1
                     /\ SubSeq(stderr', 1, Len(stderr)) = stderr
                     /\ stderr'[Len(stderr')].block_number = header
                     /\ stderr'[Len(stderr')].extrinsic_number = i
                     /\ Err(stderr'[Len(stderr')].error) = res']_vars
    /\ [][(stderr' /= stderr /\ ~Iteration) => stderr' = <<>>]_vars
    /\ [](\A k \in 1..Len(stderr) :
             /\ stderr[k].block_number = header
             /\ stderr[k].extrinsic_number < i
             /\ \A j \in 1..(k - 1) :
                   stderr[j].extrinsic_number < stderr[k].extrinsic_number)

\* Both extrinsics of block 1 failed: the two reports are in extrinsic order.
C21_Witness ==
    /\ pc = "idle"
    /\ result = Ok
    /\ stderr = <<report(Lit(1, BlockNumberLimbs), 0, "Insufficient funds."),
                  report(Lit(1, BlockNumberLimbs), 1, "Claim does not exist.")>>

\* C22 as stated: incrementing the block number and incrementing a nonce have
\* no failure mode: for every value of the counter, the maximum 2^32 - 1
\* included, the operation completes and the stored counter is the previous
\* value plus one.
C22_CountersNeverFail ==
    /\ [][ExecuteBlockOf(header', len')
             => (~panicked' /\ IsSucc(block_number, block_number'))]_vars
    /\ [][(pc = "loop" /\ i < len)
             => /\ ~panicked'
                /\ \E a \in Callers :
                      IsSucc(unwrap_or(Get(nonce, a), Zero(NonceLimbs)),
                             unwrap_or(Get(nonce', a), Zero(NonceLimbs)))]_vars

\* C23: balance entries are never created by reading.  A failed transfer,
\* which has read the balances of caller and recipient, leaves the set of keys
\* of the balances map (and the map) as it was; a key appears only in a
\* set_balance of that account or a successful transfer that the account sends
\* or receives; no key ever disappears, and an account with no key reads zero.
C23_NoAutoVivification ==
    /\ [][(Iteration /\ IsTransfer(ext') /\ res' /= Ok)
             => (DOMAIN balances' = DOMAIN balances /\ balances' = balances)]_vars
    /\ [][\A a \in AccountId :
             (a \in DOMAIN balances' /\ a \notin DOMAIN balances)
                 => \/ \E amount \in SeedAmounts : SetBalanceOf(a, amount)
                    \/ /\ Iteration
                       /\ IsTransfer(ext')
                       /\ res' = Ok
                       /\ a \in {ext'.caller, ext'.call.call.to}]_vars
    /\ [][DOMAIN balances \subseteq DOMAIN balances']_vars
    /\ [](\A a \in AccountId \ DOMAIN balances : balance(balances, a) = Zero(BalanceLimbs))

\* Only alice has an entry; bob's transfer to charlie has failed for want of
\* funds, and neither bob nor charlie has got an entry from the balances read.
C23_Witness ==
    /\ pc = "loop"
    /\ ext = Transfer("bob", "charlie", 20)
    /\ res = Err("Insufficient funds.")
    /\ DOMAIN balances = {"alice"}
    /\ balance(balances, "bob") = Zero(BalanceLimbs)
    /\ balance(balances, "charlie") = Zero(BalanceLimbs)

\* C24 as stated: once the balances are seeded, the sum of all balances is the
\* same after every extrinsic of every block, transfers of an account to itself
\* included, and after every call of execute_block, accepted or rejected.
C24_TotalSupplyConstant ==
    [][pc /= "genesis" => Total(balances') = Total(balances)]_vars

\* C27: the owner of a content never changes from one account to another in
\* one step: content that has an owner either keeps it or becomes unclaimed,
\* and it becomes unclaimed only by a successful revoke_claim of that content
\* sent by the owner; content gets an owner only when it is unclaimed.
C27_OwnerChangesThroughUnclaimed ==
    /\ [][\A c \in Content :
             (get_claim(claims, c) /= None /\ get_claim(claims', c) /= get_claim(claims, c))
                 => /\ get_claim(claims', c) = None
                    /\ Iteration
                    /\ IsRevoke(ext')
                    /\ res' = Ok
                    /\ ext'.call.call.claim = c
                    /\ Some(ext'.caller) = get_claim(claims, c)]_vars
    /\ [][\A c \in Content :
             (get_claim(claims', c) /= None /\ get_claim(claims', c) /= get_claim(claims, c))
                 => get_claim(claims, c) = None]_vars

\* Hello has had two owners: alice claimed it and revoked it, and bob has now
\* claimed the content she left unclaimed.
C27_Witness ==
    /\ pc = "loop"
    /\ i = 3
    /\ ext = CreateClaim("bob", "Hello")
    /\ res = Ok
    /\ stderr = <<>>
    /\ get_claim(claims, "Hello") = Some("bob")
    /\ nonce = [a \in {"alice", "bob"} |->
                   IF a = "alice" THEN Lit(2, NonceLimbs) ELSE Lit(1, NonceLimbs)]

\* C28: create_claim of content the caller itself owns fails with the
\* already-claimed error, as it does for content another account owns, and
\* leaves the claims as they were.
C28_CreateByOwnerRejected ==
    [][(Iteration /\ IsCreate(ext')
           /\ get_claim(claims, ext'.call.call.claim) = Some(ext'.caller))
          => /\ res' = Err("This content is already been claimed.")
             /\ claims' = claims]_vars

\* alice has claimed Hello twice in block 1: the second create_claim failed
\* and she is still the owner.
C28_Witness ==
    /\ pc = "loop"
    /\ i = 2
    /\ ext = CreateClaim("alice", "Hello")
    /\ res = Err("This content is already been claimed.")
    /\ nonce = [a \in {"alice"} |-> Lit(2, NonceLimbs)]
    /\ get_claim(claims, "Hello") = Some("alice")

\* C29: the order of the checks fixes the error.  A transfer of more than the
\* caller holds fails with insufficient funds also when the recipient's balance
\* plus the amount would overflow; revoke_claim on unclaimed content fails with
\* claim-not-found whoever the caller is.
C29_ErrorPrecedence ==
    /\ [][(Iteration /\ IsTransfer(ext')
              /\ Less(balance(balances, ext'.caller), ext'.call.call.amount))
             => res' = Err("Insufficient funds.")]_vars
    /\ [][(Iteration /\ IsRevoke(ext') /\ get_claim(claims, ext'.call.call.claim) = None)
             => res' = Err("Claim does not exist.")]_vars

\* alice, who holds 100, has tried to send 500 to bob, who holds the maximum:
\* both checks would fail, and the error is that of the first.
C29_Witness ==
    /\ pc = "loop"
    /\ ext = Transfer("alice", "bob", 500)
    /\ balance(balances, "alice") = Lit(100, BalanceLimbs)
    /\ balance(balances, "bob") = MaxValue(BalanceLimbs)
    /\ Exceeds(balance(balances, "bob"), ext.call.call.amount)
    /\ res = Err("Insufficient funds.")

\* C25: in every reachable state the block number is the number of
\* execute_block calls made so far, the rejected ones included; the header
\* number of a block that is accepted is the number of calls made up to and
\* including its own, and it is greater than the block number before the call,
\* hence than the header number of every block accepted earlier.
C25_BlockNumberCountsCalls ==
    /\ [](block_number = Lit(calls, BlockNumberLimbs))
    /\ []((pc = "loop" \/ result = Ok)
             => (header = Lit(calls, BlockNumberLimbs) /\ header = block_number))
    /\ [][(pc /= "loop" /\ pc' = "loop")
             => (header' = Lit(calls', BlockNumberLimbs) /\ Less(block_number, header'))]_vars

\* Block 1 was accepted and then sent again: the second call was rejected
\* and is counted, two calls and block number 2.
C25_Witness ==
    /\ pc = "idle"
    /\ result = BlockNumberMismatch
    /\ calls = 2
    /\ header = Lit(1, BlockNumberLimbs)
    /\ block_number = Lit(2, BlockNumberLimbs)
    /\ nonce = [a \in {"bob"} |-> Lit(1, NonceLimbs)]

\* The number of extrinsics of the list exts whose caller is a.
Sent(exts, a) == Cardinality({k \in 1..Len(exts) : exts[k].caller = a})

\* C26: in every state between calls the nonce of each account is the number
\* of extrinsics with that account as caller contained in the blocks accepted
\* so far; a rejected block adds nothing to any nonce, whatever extrinsics it
\* carries, and no nonce ever decreases.
C26_NonceCountsIncludedExtrinsics ==
    /\ [](\A a \in AccountId :
             unwrap_or(Get(nonce, a), Zero(NonceLimbs)) = Lit(included[a], NonceLimbs))
    /\ [][\A blk \in Blocks :
             ExecuteBlockCallOf(blk)
                 => IF result' = BlockNumberMismatch
                    THEN nonce' = nonce /\ included' = included
                    ELSE result' = Ok
                            => \A a \in AccountId :
                                  included'[a] = included[a] + Sent(blk.extrinsics, a)]_vars
    /\ [][\A a \in AccountId :
             ~Less(unwrap_or(Get(nonce', a), Zero(NonceLimbs)),
                   unwrap_or(Get(nonce, a), Zero(NonceLimbs)))]_vars

\* Block 1 of main was accepted and a block of four extrinsics was then
\* rejected: alice's nonce is 2, that of her two transfers, and bob has none.
C26_Witness ==
    /\ pc = "idle"
    /\ result = BlockNumberMismatch
    /\ calls = 2
    /\ len = 4
    /\ balances = AfterBlock1
    /\ nonce = [a \in {"alice"} |-> Lit(2, NonceLimbs)]
    /\ included = [a \in AccountId |-> IF a = "alice" THEN 2 ELSE 0]

====
